---------------------------- MODULE Spec2Model ----------------------------
(***************************************************************************)
(* A model of src/js/login.js: the modal dialog controller of the page     *)
(* (openModal / closeModal, the animationend-driven promises of            *)
(* animateOpen / animateClose, the focus trap installed on an open dialog) *)
(* and the DOM state those handlers read and write.                        *)
(*                                                                         *)
(* One action is one task of the browser's event loop: the dispatch of one *)
(* DOM event to the listeners the script registered, each listener         *)
(* followed by the microtask checkpoint that runs the continuations of the *)
(* promises it resolved (the code after an `await`).  Nothing else runs    *)
(* between a listener and its continuation, so the task is atomic.         *)
(*                                                                         *)
(* The page is taken to hold both containers, hidden at load, and the      *)
(* header; its focusable elements are the open button and the elements     *)
(* getFocusables finds in the containers, in document order.               *)
(*                                                                         *)
(* The forms: validateField with the three expressions of `re` (a string   *)
(* is the sequence of its characters, an expression a sequence of          *)
(* repeated character classes), the error elements of ensureErrorEl /      *)
(* setError / clearError, the submit handler and showToast with its        *)
(* timers.  Four specifications share the handlers: Spec (the dialogs),    *)
(* ValidSpec (validateField alone), ErrSpec (the inputs' events alone) and *)
(* FormSpec (the submit of a form shown in its dialog).                    *)
(***************************************************************************)
EXTENDS Naturals, Sequences, FiniteSets

\* ------------------------------------------------------------- bounds
\* trap closures listening on one container at a time
MaxTraps == 2
\* animationend listeners pending on one container
MaxListeners == 3
\* elements getFocusables finds in the two containers together
MaxFocusables == 3
\* characters typed after a stem into the field validateField is tried on
MaxLen == 3
\* error elements created for one input
MaxCreated == 2
\* timers of one delay pending at a time
MaxTimers == 2

\* ------------------------------------------------------------- the page
NULL == "null"

\* modals = { register: qs('#register-window'), login: qs('#login-window') }
modals == [register |-> "register", login |-> "login"]

Keys == DOMAIN modals

\* modals is an object literal: a key it does not own is looked up on
\* Object.prototype, where "constructor" names the function Object.
ObjectPrototypeKeys == {"constructor"}

Inherited == "Object"

\* modals[key]
ModalsLookup(key) ==
  IF key \in Keys THEN modals[key]
  ELSE IF key \in ObjectPrototypeKeys THEN Inherited
  ELSE NULL

\* the values of the data-open attributes of the page's open buttons
DataOpenValues == Keys \cup {"signup"} \cup ObjectPrototypeKeys

\* document.activeElement: the body, the page's open button, or the i-th
\* focusable element of a dialog container
Body == [in |-> "body", idx |-> 0]

Trigger == [in |-> "page", idx |-> 1]

El(k, i) == [in |-> k, idx |-> i]

VARIABLES
  activeModal,      \* let activeModal: NULL, a container, or Inherited
  hidden,           \* modal.hidden of each container
  classList,        \* the is-opening / is-closing markers of each container
  animationend,     \* the onEnd listeners on each container, in order added
  trap,             \* modal._trap: the id of a trap closure, 0 = undefined
  keydown,          \* the trap closures listening for keydown on each container
  overflow,         \* document.documentElement.style.overflow
  headerAriaHidden, \* header has aria-hidden="true"
  focus,            \* document.activeElement
  nfoc,             \* how many elements getFocusables finds in each container
  threw,            \* the last task ended in an uncaught TypeError
  lastEvent,        \* the event the last task dispatched: [kind, arg]
  probe,            \* one input validateField is tried on, and its verdict
  fields,           \* each input of the forms: value, attributes, error element
  forms,            \* each form: its is-invalid class and the timers removing it
  toast             \* Swal, #sr-toast, its timers, the showToast calls of the last task

vars == <<activeModal, hidden, classList, animationend, trap, keydown, overflow,
          headerAriaHidden, focus, nfoc, threw, lastEvent, probe, fields, forms,
          toast>>

\* the program state as one value, so that handlers compose
Cur ==
  [activeModal |-> activeModal, hidden |-> hidden, classList |-> classList,
   animationend |-> animationend, trap |-> trap, keydown |-> keydown,
   overflow |-> overflow, headerAriaHidden |-> headerAriaHidden,
   focus |-> focus, threw |-> FALSE,
   fields |-> fields, forms |-> forms, toast |-> [toast EXCEPT !.issued = <<>>]]

Ev(kind, arg) == [kind |-> kind, arg |-> arg]

Commit(st, ev) ==
  /\ activeModal' = st.activeModal
  /\ hidden' = st.hidden
  /\ classList' = st.classList
  /\ animationend' = st.animationend
  /\ trap' = st.trap
  /\ keydown' = st.keydown
  /\ overflow' = st.overflow
  /\ headerAriaHidden' = st.headerAriaHidden
  /\ focus' = st.focus
  /\ threw' = st.threw
  /\ lastEvent' = ev
  /\ fields' = st.fields
  /\ forms' = st.forms
  /\ toast' = st.toast
  /\ UNCHANGED <<nfoc, probe>>

\* The inputs `.field__input[name]` of the two forms, in document order: the
\* register form has a username and a password input, the login form a
\* password input; the username input has no enclosing .field group.
Field(form, name) == [form |-> form, name |-> name]

InputsOf ==
  [register |-> <<Field("register", "username"), Field("register", "password")>>,
   login |-> <<Field("login", "password")>>]

Fields == UNION {{InputsOf[k][i] : i \in 1..Len(InputsOf[k])} : k \in Keys}

Ungrouped == {Field("register", "username")}

\* input.closest('.field') is an element
Grouped(f) == f \notin Ungrouped

\* no .field__error element
NoErr == [exists |-> FALSE, id |-> "", text |-> "", hidden |-> TRUE]

\* an input after attachValidation: aria-invalid "false", no error element in
\* its group, no error class on the group, no error element created for it
FieldLoaded ==
  [value |-> <<>>, ariaInvalid |-> "false", describedby |-> "", err |-> NoErr,
   fieldError |-> FALSE, created |-> 0]

\* a form: no is-invalid class, no timer
FormLoaded == [isInvalid |-> FALSE, timers |-> 0]

\* window.Swal and #sr-toast as the page has them; the text of #sr-toast, the
\* title of the last Swal toast, the 50 ms timers in the order they were set
ToastLoaded(swal, srLive) ==
  [swal |-> swal, srLive |-> srLive, text |-> "", title |-> "",
   timers |-> <<>>, issued |-> <<>>]

\* the page once the script has run
Loaded ==
  /\ activeModal = NULL
  /\ hidden = [k \in Keys |-> TRUE]
  /\ classList = [k \in Keys |-> {}]
  /\ animationend = [k \in Keys |-> <<>>]
  /\ trap = [k \in Keys |-> 0]
  /\ keydown = [k \in Keys |-> {}]
  /\ overflow = ""
  /\ headerAriaHidden = FALSE
  /\ focus = Body
  /\ threw = FALSE
  /\ lastEvent = Ev("load", NULL)
  /\ fields = [f \in Fields |-> FieldLoaded]
  /\ forms = [k \in Keys |-> FormLoaded]

\* no input is being tried
NoProbe == [name |-> "", value |-> <<>>, validated |-> FALSE,
            invalid |-> FALSE, msg |-> ""]

Init ==
  /\ Loaded
  /\ nfoc \in {f \in [Keys -> 0..MaxFocusables] :
                 f["register"] + f["login"] = MaxFocusables}
  /\ probe = NoProbe
  /\ toast = ToastLoaded(TRUE, TRUE)


\* ------------------------------------------------------------- strings
\* A string is the sequence of its characters. The characters that occur:
Letters == {"a", "b", "c", "d", "e", "f", "o", "Z"}

Digits == {"0", "1", "2", "3", "4", "5", "6"}

\* the punctuation the character class of re.strong lists
StrongPunctuation ==
  {"!", "@", "#", "$", "%", "^", "&", "*", "(", ")", "_", "+", "-", "=",
   "{", "}", "[", "]", ":", ";", "\"", "'", "<", ">", "?", ",", ".", "/"}

\* \s, as far as a text input can hold it
Whitespace == {" "}

\* printable characters no class of re names
OtherPrintable == {"~", "|"}

\* every character, what a dot matches
AnyChar == Letters \cup Digits \cup StrongPunctuation \cup Whitespace
             \cup OtherPrintable

\* String.prototype.trim
RECURSIVE trimStart(_)
trimStart(s) ==
  IF s # <<>> /\ Head(s) \in Whitespace THEN trimStart(Tail(s)) ELSE s

RECURSIVE trimEnd(_)
trimEnd(s) ==
  IF s # <<>> /\ s[Len(s)] \in Whitespace
  THEN trimEnd(SubSeq(s, 1, Len(s) - 1)) ELSE s

trim(s) == trimEnd(trimStart(s))

\* ------------------------------------------------------------- regular expressions
\* class{min,max} and class{min,} (+ is {1,}, * is {0,}, one character {1,1})
Rep(class, min, max) ==
  [class |-> class, min |-> min, max |-> max, bounded |-> TRUE]

AtLeast(class, min) ==
  [class |-> class, min |-> min, max |-> min, bounded |-> FALSE]

\* the positions of s where a match of item can end that starts at one of P
Ends(P, item, s) ==
  {q \in 0..Len(s) :
     \E p \in P :
       /\ q >= p + item.min
       /\ item.bounded => q <= p + item.max
       /\ \A i \in (p + 1)..q : s[i] \in item.class}

\* the positions where a match of the items, one after the other, can end
RECURSIVE Run(_, _, _)
Run(items, s, P) ==
  IF items = <<>> THEN P ELSE Run(Tail(items), s, Ends(P, Head(items), s))

\* the three expressions: lookaheads at the start, then ^body$
re ==
  [username |->
     [ahead |-> <<>>,
      body |-> <<Rep(Letters \cup Digits \cup {"_"}, 3, 20)>>],
   email |->
     [ahead |-> <<>>,
      body |-> <<AtLeast(AnyChar \ (Whitespace \cup {"@"}), 1),
                 Rep({"@"}, 1, 1),
                 AtLeast(AnyChar \ (Whitespace \cup {"@"}), 1),
                 Rep({"."}, 1, 1),
                 AtLeast(AnyChar \ (Whitespace \cup {"@"}), 2)>>],
   strong |->
     [ahead |-> << <<AtLeast(AnyChar, 0), Rep(Letters, 1, 1)>>,
                   <<AtLeast(AnyChar, 0), Rep(Digits, 1, 1)>> >>,
      body |-> <<AtLeast(Letters \cup Digits \cup StrongPunctuation, 6)>>]]

\* RegExp.prototype.test
test(r, s) ==
  /\ \A i \in 1..Len(r.ahead) : Run(r.ahead[i], s, {0}) # {}
  /\ Len(s) \in Run(r.body, s, {0})

\* ------------------------------------------------------------- validation
\* The messages, by the rule they belong to (the page shows Ukrainian text).
RequiredMsg ==
  [username |-> "username: required", email |-> "email: required",
   password |-> "password: required"]

FormatMsg ==
  [username |-> "username: 3-20 latin letters, digits, _",
   email |-> "email: wrong format",
   password |-> "password: at least 6 characters, a letter and a digit"]

ExprOf == [username |-> "username", email |-> "email", password |-> "strong"]

Valid == [invalid |-> FALSE, msg |-> ""]

Invalid(msg) == [invalid |-> TRUE, msg |-> msg]

\* validateField testing the format before the empty value
VerdictFormatFirst(name, value) ==
  LET val == trim(value) IN
  IF name \notin DOMAIN ExprOf THEN Valid
  ELSE IF ~test(re[ExprOf[name]], val) THEN Invalid(FormatMsg[name])
  ELSE IF val = <<>> THEN Invalid(RequiredMsg[name])
  ELSE Valid

\* what validateField decides for an input of this name and value: setError
\* with a message, or clearError
Verdict(name, value) ==
  LET val == trim(value) IN
  IF name \notin DOMAIN ExprOf THEN Valid
  ELSE IF val = <<>> THEN Invalid(RequiredMsg[name])
  ELSE IF ~test(re[ExprOf[name]], val) THEN Invalid(FormatMsg[name])
  ELSE Valid

\* ------------------------------------------------------------- error elements
\* `err-${input.name}`
ErrId == [username |-> "err-username", password |-> "err-password"]

\* ensureErrorEl(input): the .field__error of the input's group if there is
\* one, else a new element, appended to the group if there is a group
ensureErrorEl(st, f) ==
  IF Grouped(f) /\ st.fields[f].err.exists THEN st
  ELSE [st EXCEPT
          !.fields[f].created = @ + 1,
          !.fields[f].err =
             IF Grouped(f)
             THEN [exists |-> TRUE, id |-> ErrId[f.name], text |-> "",
                   hidden |-> TRUE]
             ELSE @]

\* setError(input, msg)
setError(st, f, msg) ==
  [ensureErrorEl(st, f) EXCEPT
     !.fields[f].ariaInvalid = "true",
     !.fields[f].describedby = ErrId[f.name],
     !.fields[f].err = IF Grouped(f)
                       THEN [@ EXCEPT !.text = msg, !.hidden = FALSE] ELSE @,
     !.fields[f].fieldError = IF Grouped(f) THEN TRUE ELSE @]

\* clearError(input)
clearError(st, f) ==
  [st EXCEPT
     !.fields[f].ariaInvalid = "false",
     !.fields[f].err = IF Grouped(f) /\ @.exists
                       THEN [@ EXCEPT !.text = "", !.hidden = TRUE] ELSE @,
     !.fields[f].fieldError = IF Grouped(f) THEN FALSE ELSE @]

\* validateField(input)
validateField(st, f) ==
  LET v == Verdict(f.name, st.fields[f].value) IN
  IF v.invalid THEN setError(st, f, v.msg) ELSE clearError(st, f)

\* ------------------------------------------------------------- toast
\* the second argument of the submit handler's showToast call
SuccessMsg(form) ==
  IF form = "register" THEN "register: success" ELSE "login: success"

\* showToast(message)
showToast(st, message) ==
  [st EXCEPT
     !.toast.issued = Append(@, message),
     !.toast.title = IF st.toast.swal THEN message ELSE @,
     !.toast.text = IF st.toast.srLive THEN "" ELSE @,
     !.toast.timers = IF st.toast.srLive THEN Append(@, message) ELSE @]

\* ------------------------------------------------------------- focus
\* what focusables[0] / focusables.at(-1) give for an empty list
Undefined == [in |-> "undefined", idx |-> 0]

\* getFocusables(root): the focusable elements of a container, in DOM order
getFocusables(k) == [i \in 1..nfoc[k] |-> El(k, i)]

\* el.focus(): an element of a hidden container is not focusable
Focus(st, el) ==
  IF el = Undefined \/ (el.in \in Keys /\ st.hidden[el.in]) THEN st
  ELSE [st EXCEPT !.focus = el]

\* modal.hidden = true; the browser's focus fix-up moves the focus off an
\* element that stopped being rendered
SetHidden(st, m) ==
  [st EXCEPT !.hidden[m] = TRUE,
             !.focus = IF st.focus.in = m THEN Body ELSE st.focus]

\* ------------------------------------------------------------- animations
\* animateOpen(modal), up to the promise it returns
animateOpen(st, modal) ==
  IF modal = Inherited
  THEN \* modal.hidden = false sets a property of the function Object, which
       \* has no classList: TypeError, the promise of openModal rejects
       [st EXCEPT !.threw = TRUE]
  ELSE [st EXCEPT !.hidden[modal] = FALSE,
                  !.classList[modal] = (@ \ {"is-closing"}) \cup {"is-opening"},
                  !.animationend[modal] = Append(@, "open")]

\* animateClose hiding the container at once instead of in onEnd
animateCloseHidesAtOnce(st, modal) ==
  SetHidden([st EXCEPT !.classList[modal] = (@ \ {"is-opening"}) \cup {"is-closing"},
                       !.animationend[modal] = Append(@, "close")],
            modal)

\* animateClose(modal), up to the promise it returns
animateClose(st, modal) ==
  [st EXCEPT !.classList[modal] = (@ \ {"is-opening"}) \cup {"is-closing"},
             !.animationend[modal] = Append(@, "close")]

\* ------------------------------------------------------------- open / close
\* openModal without the `|| activeModal` test
openModalUnguarded(st, key) ==
  LET modal == ModalsLookup(key) IN
  IF modal = NULL THEN st
  ELSE animateOpen([st EXCEPT !.activeModal = modal], modal)

\* openModal testing only whether the requested dialog is the active one
openModalSameOnly(st, key) ==
  LET modal == ModalsLookup(key) IN
  IF modal = NULL \/ st.activeModal = modal THEN st
  ELSE animateOpen([st EXCEPT !.activeModal = modal], modal)

\* openModal setting the scroll lock and the header marker before its await
openModalLocksEarly(st, key) ==
  LET modal == ModalsLookup(key) IN
  IF modal = NULL \/ st.activeModal # NULL THEN st
  ELSE animateOpen([st EXCEPT !.activeModal = modal,
                              !.overflow = "hidden",
                              !.headerAriaHidden = TRUE], modal)

\* openModal(key), up to its await
openModal(st, key) ==
  LET modal == ModalsLookup(key) IN
  IF modal = NULL \/ st.activeModal # NULL THEN st
  ELSE animateOpen([st EXCEPT !.activeModal = modal], modal)

\* openModal after its await: scroll lock, header, focus trap, first focus.
\* The trap closure made here is a new function object: it gets the least
\* id that no closure still listening on the container has.
openContinuation(st, modal) ==
  LET focusables == getFocusables(modal)
      first == IF Len(focusables) > 0 THEN focusables[1] ELSE Undefined
      id == CHOOSE i \in 1..(Cardinality(st.keydown[modal]) + 1) :
              /\ i \notin st.keydown[modal]
              /\ \A j \in 1..(i - 1) : j \in st.keydown[modal]
  IN  Focus([st EXCEPT !.overflow = "hidden",
                       !.headerAriaHidden = TRUE,
                       !.trap[modal] = id,
                       !.keydown[modal] = @ \cup {id}],
            first)

\* closeModal clearing the slot before its await instead of after it
closeModalClearsEarly(st) ==
  IF st.activeModal = NULL THEN st
  ELSE IF st.activeModal = Inherited THEN [st EXCEPT !.threw = TRUE]
  ELSE LET m == st.activeModal IN
       animateClose([st EXCEPT !.keydown[m] = @ \ {st.trap[m]},
                               !.activeModal = NULL], m)

\* closeModal(), up to its await
closeModal(st) ==
  IF st.activeModal = NULL THEN st
  ELSE IF st.activeModal = Inherited
  THEN \* Object.removeEventListener is not a function: TypeError
       [st EXCEPT !.threw = TRUE]
  ELSE LET m == st.activeModal IN
       animateClose([st EXCEPT !.keydown[m] = @ \ {st.trap[m]}], m)

\* closeModal after its await, the scroll lock left in place
closeContinuationKeepsLock(st) ==
  [st EXCEPT !.activeModal = NULL, !.headerAriaHidden = FALSE]

\* closeModal after its await
closeContinuation(st) ==
  [st EXCEPT !.activeModal = NULL, !.overflow = "", !.headerAriaHidden = FALSE]

\* onEnd of animateOpen for an event whose target is the container, then the
\* continuation of the openModal that awaits the resolved promise
onEndOpen(st, modal) ==
  openContinuation(
    [st EXCEPT !.classList[modal] = @ \ {"is-opening"},
               !.animationend[modal] = Tail(@)],
    modal)

\* onEnd of animateClose for an event whose target is the container, then the
\* continuation of the closeModal that awaits the resolved promise
onEndClose(st, modal) ==
  closeContinuation(
    SetHidden([st EXCEPT !.classList[modal] = @ \ {"is-closing"},
                         !.animationend[modal] = Tail(@)],
              modal))

\* the onEnd listener whose closeModal the submit handler of a form awaits
SubmitTag == [register |-> "submit-register", login |-> "submit-login"]

\* onEnd of animateClose, the continuation of closeModal, then the
\* continuation of the submit handler that awaits it
onEndSubmit(st, modal) ==
  LET form == CHOOSE k \in Keys : SubmitTag[k] = Head(st.animationend[modal])
  IN  showToast(onEndClose(st, modal), SuccessMsg(form))

\* the dispatch of one animationend event whose target is the container: the n
\* listeners registered when it starts run in the order they were added, each
\* removing itself
RECURSIVE dispatchAnimationEnd(_, _, _)
dispatchAnimationEnd(st, modal, n) ==
  IF n = 0 THEN st
  ELSE dispatchAnimationEnd(
         IF Head(st.animationend[modal]) = "open" THEN onEndOpen(st, modal)
         ELSE IF Head(st.animationend[modal]) = "close" THEN onEndClose(st, modal)
         ELSE onEndSubmit(st, modal),
         modal, n - 1)

\* ------------------------------------------------------------- submit
\* inputs.forEach(inp => validateField(inp))
RECURSIVE validateAll(_, _)
validateAll(st, inputs) ==
  IF inputs = <<>> THEN st
  ELSE validateAll(validateField(st, Head(inputs)), Tail(inputs))

\* the hasError of the submit handler
hasError(st, form) ==
  \E i \in 1..Len(InputsOf[form]) :
    st.fields[InputsOf[form][i]].ariaInvalid = "true"

\* the submit handler from `await closeModal()` on, showing the toast before
\* it awaits
closeThenToastUnawaited(st, form) ==
  closeModal(showToast(st, SuccessMsg(form)))

\* the submit handler from `await closeModal()` on: with no active dialog the
\* promise is resolved and the toast is shown in the same task, else the toast
\* waits for the onEnd that closeModal added
closeThenToast(st, form) ==
  IF st.activeModal = NULL THEN showToast(st, SuccessMsg(form))
  ELSE IF st.activeModal = Inherited THEN closeModal(st)
  ELSE [closeModal(st) EXCEPT
          !.animationend[st.activeModal] =
             [@ EXCEPT ![Len(@)] = SubmitTag[form]]]

\* the submit handler of a form, up to its await
submitHandler(st, form) ==
  LET validated == validateAll(st, InputsOf[form]) IN
  IF hasError(validated, form)
  THEN [validated EXCEPT !.forms[form].isInvalid = TRUE,
                         !.forms[form].timers = @ + 1]
  ELSE closeThenToast(validated, form)

\* ------------------------------------------------------------- focus trap
\* modal._trap without its e.preventDefault() calls
trapHandlerNoPrevent(st, modal, shift) ==
  LET focusables == getFocusables(modal)
      first == IF Len(focusables) > 0 THEN focusables[1] ELSE Undefined
      last == IF Len(focusables) > 0 THEN focusables[Len(focusables)] ELSE Undefined
  IN  IF shift /\ st.focus = first
      THEN [st |-> Focus(st, last), prevented |-> FALSE]
      ELSE IF ~shift /\ st.focus = last
      THEN [st |-> Focus(st, first), prevented |-> FALSE]
      ELSE [st |-> st, prevented |-> FALSE]

\* modal._trap for a Tab keydown: [st, prevented]
trapHandler(st, modal, shift) ==
  LET focusables == getFocusables(modal)
      first == IF Len(focusables) > 0 THEN focusables[1] ELSE Undefined
      last == IF Len(focusables) > 0 THEN focusables[Len(focusables)] ELSE Undefined
  IN  IF shift /\ st.focus = first
      THEN [st |-> Focus(st, last), prevented |-> TRUE]
      ELSE IF ~shift /\ st.focus = last
      THEN [st |-> Focus(st, first), prevented |-> TRUE]
      ELSE [st |-> st, prevented |-> FALSE]

\* the n trap closures listening on the container, one after the other
RECURSIVE dispatchTraps(_, _, _, _)
dispatchTraps(r, modal, shift, n) ==
  IF n = 0 THEN r
  ELSE LET q == trapHandler(r.st, modal, shift) IN
       dispatchTraps([st |-> q.st, prevented |-> r.prevented \/ q.prevented],
                     modal, shift, n - 1)

\* the page's tab order: the open button, then the focusable elements of the
\* containers that are rendered
Rendered(st, k) == IF st.hidden[k] THEN <<>> ELSE getFocusables(k)

TabOrder(st) == <<Trigger>> \o Rendered(st, "register") \o Rendered(st, "login")

IndexOf(seq, el) ==
  IF \E i \in 1..Len(seq) : seq[i] = el
  THEN CHOOSE i \in 1..Len(seq) : seq[i] = el
  ELSE 0

\* the browser's default action for Tab / Shift+Tab; past either end the
\* focus leaves the document's elements
DefaultTab(st, shift) ==
  LET order == TabOrder(st)
      i == IndexOf(order, st.focus)
      j == IF shift
           THEN (IF i = 0 THEN Len(order) ELSE i - 1)
           ELSE (IF i = Len(order) THEN 0 ELSE i + 1)
  IN  [st EXCEPT !.focus = IF j = 0 THEN Body ELSE order[j]]

\* ------------------------------------------------------------- events
\* click on a [data-open] button
ClickOpen(key) ==
  /\ (ModalsLookup(key) \in Keys /\ activeModal = NULL)
       => Cardinality(keydown[ModalsLookup(key)]) < MaxTraps
  /\ Commit(openModal(Cur, key), Ev("clickOpen", key))

CanClose ==
  activeModal \in Keys => Len(animationend[activeModal]) < MaxListeners

\* click on a [data-close] button
ClickClose ==
  /\ CanClose
  /\ Commit(closeModal(Cur), Ev("clickClose", NULL))

\* mousedown on a .modal container: on the container itself (the backdrop) or
\* on something inside it
Mousedown(k, onBackdrop) ==
  /\ CanClose
  /\ Commit(IF onBackdrop THEN closeModal(Cur) ELSE Cur,
            Ev(IF onBackdrop THEN "mousedownBackdrop" ELSE "mousedownInside", k))

\* keydown Escape: the traps return at once, the document listener closes
KeydownEscape ==
  /\ CanClose
  /\ Commit(closeModal(Cur), Ev("keydownEscape", NULL))

\* keydown Tab on document.activeElement: the traps of the container it is
\* in, then the browser's default action unless a trap prevented it
TabTraps(shift) ==
  IF focus.in \in Keys
  THEN dispatchTraps([st |-> Cur, prevented |-> FALSE], focus.in, shift,
                     Cardinality(keydown[focus.in]))
  ELSE [st |-> Cur, prevented |-> FALSE]

KeydownTab(shift) ==
  /\ shift \in BOOLEAN
  /\ Commit(IF TabTraps(shift).prevented
            THEN TabTraps(shift).st
            ELSE DefaultTab(TabTraps(shift).st, shift),
            Ev(IF shift THEN "keydownShiftTab" ELSE "keydownTab", focus.in))

\* the user puts the focus on the open button or on a rendered element
FocusElement(el) ==
  /\ el.in \in Keys => (~hidden[el.in] /\ el.idx <= nfoc[el.in])
  /\ Commit(Focus(Cur, el), Ev("focus", el.in))

\* the animation of a container ends: animationend with target the container
AnimationEnd(k) ==
  /\ classList[k] # {}
  /\ Commit(dispatchAnimationEnd(Cur, k, Len(animationend[k])),
            Ev("animationend", k))

\* an animation of a descendant ends: the event bubbles to the container,
\* every onEnd returns at `e.target !== modal`
AnimationEndBubbled(k) ==
  /\ ~hidden[k]
  /\ Commit(Cur, Ev("animationendBubbled", k))

\* what an input holds after the user typed in it
FormValues == {<<"a", "b">>, <<"a", "b", "c", "1", "2", "3">>}

\* the whole page obeys the bound on error elements
CreatedBounded == \A f \in Fields : fields'[f].created <= MaxCreated

\* input event of an input whose value became v
Input(f, v) ==
  /\ v \in FormValues
  /\ Commit(validateField([Cur EXCEPT !.fields[f].value = v], f),
            Ev("input", f.form))
  /\ CreatedBounded

\* blur event of an input
Blur(f) ==
  /\ f \in Fields
  /\ Commit(validateField(Cur, f), Ev("blur", f.form))
  /\ CreatedBounded

\* onEnd listeners of submit handlers pending on the containers
PendingToasts ==
  Cardinality({<<k, i>> \in Keys \X (1..MaxListeners) :
                 i <= Len(animationend[k])
                 /\ animationend[k][i] \notin {"open", "close"}})

\* submit event of a rendered form
Submit(form) ==
  /\ ~hidden[form]
  /\ CanClose
  /\ forms[form].timers < MaxTimers
  /\ Len(toast.timers) + PendingToasts < MaxTimers
  /\ Commit(submitHandler(Cur, form),
            Ev(IF hasError(validateAll(Cur, InputsOf[form]), form)
               THEN "submitBlocked" ELSE "submit", form))
  /\ CreatedBounded

\* the 50 ms timer showToast set first
ToastTimer ==
  /\ toast.timers # <<>>
  /\ Commit([Cur EXCEPT !.toast.text = Head(toast.timers),
                        !.toast.timers = Tail(@)],
            Ev("timeout", "toast"))

\* a 420 ms timer the submit handler of the form set
ShakeTimer(form) ==
  /\ forms[form].timers > 0
  /\ Commit([Cur EXCEPT !.forms[form].isInvalid = FALSE,
                        !.forms[form].timers = @ - 1],
            Ev("timeout", form))

Elements == {Trigger} \cup {El(k, i) : k \in Keys, i \in 1..MaxFocusables}

\* every event but the end of a container's own animation
OtherEvent ==
  \/ \E key \in DataOpenValues : ClickOpen(key)
  \/ ClickClose
  \/ \E k \in Keys, b \in BOOLEAN : Mousedown(k, b)
  \/ KeydownEscape
  \/ \E shift \in BOOLEAN : KeydownTab(shift)
  \/ \E el \in Elements : FocusElement(el)
  \/ \E k \in Keys : AnimationEndBubbled(k)

Next ==
  \/ OtherEvent
  \/ \E k \in Keys : AnimationEnd(k)

Spec == Init /\ [][Next]_vars

\* The browser ends the animation of a container that carries a marker and
\* dispatches animationend.
LiveSpec == Spec /\ \A k \in Keys : WF_vars(AnimationEnd(k))

\* The event loop keeps serving every other event, and nothing is promised
\* about animationend: the environment may never deliver one.
QuietSpec == Spec /\ WF_vars(OtherEvent)

\* ------------------------------------------------------------- validateField alone
\* the names an input can have: the three validateField knows, another, none
ProbeNames == {"username", "email", "password", "password-confirm", ""}

\* what is in the input before the user types
Stems ==
  {<<>>,
   <<"a", "b", "c", "1", "2">>,
   <<"a", "@", "b", ".">>,
   [i \in 1..18 |-> "a"]}

\* what the user types: up to MaxLen of these characters
TypedChars == {"a", "1", "_", "@", ".", " ", "~"}

Typed == UNION {[1..n -> TypedChars] : n \in 0..MaxLen}

Examples ==
  {<<"a", "b">>,
   <<"a", "b", "c", "_", "1", "2", "3">>,
   <<"a", "@", "b", ".", "c">>,
   <<"a", "@", "b", ".", "c", "o">>,
   <<"a", "b", "c", "1", "2", "~">>,
   <<"a", "b", "c", " ", "1", "2", "3">>,
   <<"a", "b", "c", "d", "e", "f">>,
   <<"1", "2", "3", "4", "5", "6">>,
   <<"Z", "|", "0", "!", "?", "/">>}

ProbeValues == {stem \o t : stem \in Stems, t \in Typed} \cup Examples

ValidInit ==
  /\ Loaded
  /\ nfoc = [k \in Keys |-> 0]
  /\ probe \in {[NoProbe EXCEPT !.name = n, !.value = v] :
                  n \in ProbeNames, v \in ProbeValues}
  /\ toast = ToastLoaded(TRUE, TRUE)

\* the input or blur event of the input: validateField(inp)
ValidateProbe ==
  /\ ~probe.validated
  /\ probe' = [probe EXCEPT !.validated = TRUE,
                            !.invalid = Verdict(probe.name, probe.value).invalid,
                            !.msg = Verdict(probe.name, probe.value).msg]
  /\ UNCHANGED <<activeModal, hidden, classList, animationend, trap, keydown,
                 overflow, headerAriaHidden, focus, nfoc, threw, lastEvent,
                 fields, forms, toast>>

ValidNext == ValidateProbe

ValidSpec == ValidInit /\ [][ValidNext]_vars

\* ------------------------------------------------------------- error elements alone
\* the input and blur events of the inputs, the dialogs left alone
ErrInit == Init

ErrNext ==
  \/ \E f \in Fields, v \in FormValues : Input(f, v)
  \/ \E f \in Fields : Blur(f)

ErrSpec == ErrInit /\ [][ErrNext]_vars

\* ------------------------------------------------------------- the forms
\* The page with or without SweetAlert2 and with or without #sr-toast, each
\* dialog with one focusable element, each input empty or holding a value
\* the browser restored.
FormInit ==
  /\ activeModal = NULL
  /\ hidden = [k \in Keys |-> TRUE]
  /\ classList = [k \in Keys |-> {}]
  /\ animationend = [k \in Keys |-> <<>>]
  /\ trap = [k \in Keys |-> 0]
  /\ keydown = [k \in Keys |-> {}]
  /\ overflow = ""
  /\ headerAriaHidden = FALSE
  /\ focus = Body
  /\ threw = FALSE
  /\ lastEvent = Ev("load", NULL)
  /\ nfoc = [k \in Keys |-> 1]
  /\ probe = NoProbe
  /\ fields \in {[f \in Fields |-> [FieldLoaded EXCEPT !.value = v[f]]] :
                   v \in [Fields -> FormValues \cup {<<>>}]}
  /\ forms = [k \in Keys |-> FormLoaded]
  /\ toast \in {ToastLoaded(swal, srLive) : swal \in BOOLEAN, srLive \in BOOLEAN}

\* the submit events of the forms, the timers they set, and the dialog events
\* that show a form and end its transitions
FormNext ==
  \/ \E key \in Keys : ClickOpen(key)
  \/ \E k \in Keys : AnimationEnd(k)
  \/ \E form \in Keys : Submit(form)
  \/ ToastTimer
  \/ \E form \in Keys : ShakeTimer(form)

FormSpec == FormInit /\ [][FormNext]_vars

\* ------------------------------------------------------------- dialog states
IsOpening(k) == "is-opening" \in classList[k]

IsClosing(k) == "is-closing" \in classList[k]

IsOpen(k) == activeModal = k /\ ~hidden[k] /\ classList[k] = {}

IsClosed(k) == activeModal # k /\ hidden[k] /\ classList[k] = {}

\* the container is shown or carries a marker
Shown(k) == ~hidden[k] \/ classList[k] # {}

\* an await of the dialog's transition is unresolved
Pending(k) == animationend[k] # <<>>

\* what the controller owns: everything but the record of the last event
Dom == <<activeModal, hidden, classList, animationend, trap, keydown, overflow,
         headerAriaHidden, focus>>

CloseKinds == {"clickClose", "mousedownBackdrop", "keydownEscape", "submit"}

\* ------------------------------------------------------------- claims
\* C1: in every reachable state at most one dialog is Opening, Open or
\* Closing; equivalently at most one container is un-hidden or carries
\* a marker, and such a container is the one the active slot names.
C1_AtMostOneActive ==
  /\ Cardinality({k \in Keys : IsOpening(k) \/ IsOpen(k) \/ IsClosing(k)}) <= 1
  /\ Cardinality({k \in Keys : Shown(k)}) <= 1
  /\ \A k \in Keys : Shown(k) => activeModal = k

\* a dialog is open and the last click asked for the other one
C1_Witness ==
  \E k \in Keys, key \in Keys :
    key # k /\ IsOpen(k) /\ lastEvent = Ev("clickOpen", key)

\* C2: a click on an open button while a dialog is Opening, Open or Closing
\* changes nothing the controller owns and raises no error, and the request
\* is not queued: a dialog becomes shown or active only in the task of a
\* click on its own open button.
C2_OpenWhileActiveIsNoOp ==
  [][/\ \A key \in DataOpenValues :
          (lastEvent' = Ev("clickOpen", key) /\ \E k \in Keys : ~IsClosed(k))
            => (UNCHANGED Dom /\ threw' = FALSE)
     /\ \A k \in Keys :
          (IsClosed(k) /\ ~IsClosed(k)') => lastEvent' = Ev("clickOpen", k)]_vars

\* a dialog is closing and the last click asked for the other one
C2_Witness ==
  \E k \in Keys, key \in Keys :
    key # k /\ IsClosing(k) /\ lastEvent = Ev("clickOpen", key)

\* C3: once open(K) is accepted, dialog K eventually reaches Open (the
\* animationend events being delivered), and while K is active every other
\* dialog is Closed.
C3_OpenReachesOpen ==
  /\ [](\A k \in Keys : activeModal = k => \A j \in Keys \ {k} : IsClosed(j))
  /\ \A k \in Keys :
       (lastEvent = Ev("clickOpen", k) /\ IsOpening(k)) ~> IsOpen(k)

\* C4: with no animationend promised, every pending transition still
\* settles: the await of an accepted open or close is eventually resolved.
C4_TransitionsSettle ==
  \A k \in Keys : Pending(k) ~> ~Pending(k)

\* C5: no trap closure listens for keydown on a dialog that is Closed, and
\* at most one trap closure listens on a dialog at any time.
C5_NoTrapOutlivesDialog ==
  \A k \in Keys :
    /\ IsClosed(k) => keydown[k] = {}
    /\ Cardinality(keydown[k]) <= 1

\* C6: when a dialog is Open the scroll lock and the header's aria-hidden
\* are set; when no dialog is active both are released.
C6_LockFollowsDialog ==
  /\ \A k \in Keys : IsOpen(k) => (overflow = "hidden" /\ headerAriaHidden)
  /\ (activeModal = NULL \/ \A k \in Keys : IsClosed(k))
       => (overflow = "" /\ ~headerAriaHidden)

\* every dialog is closed again after one was fully opened
C6_Witness ==
  /\ activeModal = NULL
  /\ lastEvent.kind = "animationend"
  /\ \E k \in Keys : trap[k] # 0 /\ keydown[k] = {}

\* C7: the scroll lock and the header marker are not set while a dialog is
\* Opening and do not change while a dialog stays Closing; they are set only
\* in the task of the animationend that ends an opening, and released only
\* in the task of the animationend that ends a closing.
C7_LockOrdered ==
  [][/\ \A k \in Keys :
          /\ IsOpening(k) => (overflow = "" /\ ~headerAriaHidden)
          /\ IsOpening(k)' => (overflow' = "" /\ ~headerAriaHidden')
          /\ (IsClosing(k) /\ IsClosing(k)') => UNCHANGED <<overflow, headerAriaHidden>>
     /\ (overflow' # overflow \/ headerAriaHidden' # headerAriaHidden) =>
          \E k \in Keys :
            /\ lastEvent' = Ev("animationend", k)
            /\ Pending(k) /\ ~Pending(k)'
            /\ IF overflow' = "hidden"
               THEN headerAriaHidden' /\ IsOpening(k) /\ IsOpen(k)'
               ELSE ~headerAriaHidden' /\ IsClosing(k) /\ IsClosed(k)']_vars

\* an open dialog was asked to close: it is Closing, the lock still set
C7_Witness ==
  \E k \in Keys :
    /\ IsClosing(k) /\ lastEvent.kind \in CloseKinds
    /\ overflow = "hidden" /\ headerAriaHidden

\* C8: a close request (close button, backdrop mousedown, Escape) while no
\* dialog is active, that is while every dialog is Closed, changes nothing
\* the controller owns and raises no error.
C8_CloseWhenIdleIsNoOp ==
  [][(lastEvent'.kind \in CloseKinds /\ \A k \in Keys : IsClosed(k))
       => (UNCHANGED Dom /\ threw' = FALSE)]_vars

\* C9: a click on an open button is acted upon only if its key is one of the
\* mapping's keys and the slot is empty; for every other key the click
\* changes nothing the controller owns and raises no error.
C9_UnknownKeyIgnored ==
  [][\A key \in DataOpenValues :
       (lastEvent' = Ev("clickOpen", key) /\ ~(key \in Keys /\ activeModal = NULL))
         => (UNCHANGED Dom /\ threw' = FALSE)]_vars

\* C10: with a trap listening on an open dialog and the focus on one of the
\* dialog's elements, Tab on the last element moves the focus to the first,
\* Shift+Tab on the first moves it to the last, both with the default action
\* prevented, and no Tab or Shift+Tab moves the focus out of the dialog.
C10_FocusTrapped ==
  [][\A k \in Keys :
       (/\ lastEvent'.kind \in {"keydownTab", "keydownShiftTab"}
        /\ IsOpen(k) /\ keydown[k] # {} /\ focus.in = k)
       => /\ focus'.in = k
          /\ (lastEvent'.kind = "keydownTab" /\ focus = El(k, nfoc[k]))
               => (focus' = El(k, 1) /\ TabTraps(FALSE).prevented)
          /\ (lastEvent'.kind = "keydownShiftTab" /\ focus = El(k, 1))
               => (focus' = El(k, nfoc[k]) /\ TabTraps(TRUE).prevented)]_vars

\* Tab was pressed inside an open dialog of several elements and the focus
\* is on its first one: it wrapped around
C10_Witness ==
  \E k \in Keys :
    /\ IsOpen(k) /\ nfoc[k] >= 2 /\ keydown[k] # {}
    /\ lastEvent = Ev("keydownTab", k) /\ focus = El(k, 1)

\* C16: a close request while a dialog is Opening is ignored: it changes
\* nothing the controller owns, and a dialog leaves Opening only by becoming
\* Open.
C16_CloseWhileOpeningIgnored ==
  [][\A k \in Keys :
       /\ (lastEvent'.kind \in CloseKinds /\ IsOpening(k)) => UNCHANGED Dom
       /\ (IsOpening(k) /\ ~IsOpening(k)') => IsOpen(k)']_vars

\* C17: a container that is closing stays un-hidden and keeps is-closing
\* until the task of an animationend whose target is the container; an
\* accepted close request leaves it so, a bubbled animationend changes
\* nothing, and the marker is removed and the container hidden in one task.
C17_HiddenOnlyAtCloseEnd ==
  [][\A k \in Keys :
       /\ IsClosing(k) => ~hidden[k]
       /\ IsClosing(k)' => ~hidden'[k]
       /\ (lastEvent'.kind \in CloseKinds /\ activeModal = k)
            => (IsClosing(k)' /\ ~hidden'[k])
       /\ lastEvent' = Ev("animationendBubbled", k) => UNCHANGED Dom
       /\ (~hidden[k] /\ hidden'[k])
            => (lastEvent' = Ev("animationend", k) /\ IsClosing(k) /\ ~IsClosing(k)')
       /\ (IsClosing(k) /\ ~IsClosing(k)')
            => (lastEvent' = Ev("animationend", k) /\ hidden'[k])]_vars

\* a descendant's animation ended while the dialog was closing: the dialog
\* is still closing and shown
C17_Witness ==
  \E k \in Keys :
    IsClosing(k) /\ ~hidden[k] /\ lastEvent = Ev("animationendBubbled", k)

\* C19: the slot stops naming a dialog only in the task of the animationend
\* that ends that dialog's closing, where it becomes empty and the dialog
\* Closed; the lock is released only in such a task; a dialog is closing
\* only after a close request made while the slot named it; and an active
\* dialog is never hidden.
C19_CloseDeactivatesOwnDialog ==
  [][/\ \A k \in Keys :
          /\ (activeModal = k /\ activeModal' # k)
               => /\ lastEvent' = Ev("animationend", k)
                  /\ IsClosing(k)
                  /\ activeModal' = NULL
                  /\ IsClosed(k)'
          /\ (~IsClosing(k) /\ IsClosing(k)')
               => (lastEvent'.kind \in CloseKinds /\ activeModal = k)
          /\ activeModal = k => ~hidden[k]
          /\ activeModal' = k => ~hidden'[k]
     /\ (overflow = "hidden" /\ overflow' = "")
          => \E k \in Keys :
               /\ activeModal = k /\ IsClosing(k)
               /\ lastEvent' = Ev("animationend", k)]_vars

\* a dialog that was closed is open again after the other one was opened and
\* closed: no close of an earlier cycle touched it
C19_Witness ==
  \E k \in Keys, j \in Keys :
    /\ j # k /\ IsOpen(k) /\ trap[j] # 0 /\ trap[k] # 0
    /\ lastEvent = Ev("animationend", k)

\* 3 to 20 characters, each a latin letter, a digit or the underscore
IsUsername(v) ==
  /\ Len(v) >= 3 /\ Len(v) <= 20
  /\ \A i \in 1..Len(v) : v[i] \in Letters \cup Digits \cup {"_"}

\* C13: the verdict of validateField is decided by the input's name and its
\* trimmed value, by the first rule that fails: for username, email and
\* password an empty trimmed value is invalid with the required message, a
\* value not of the field's format is invalid with the format message,
\* anything else is valid; an input of any other name is valid. Username
\* "ab" is invalid and "abc_123" valid, email "a@b.c" is invalid and
\* "a@b.co" valid.
C13_VerdictByFirstFailingRule ==
  probe.validated =>
    LET n == probe.name
        v == trim(probe.value)
        known == n \in {"username", "email", "password"}
    IN  /\ ~known => (~probe.invalid /\ probe.msg = "")
        /\ (known /\ \A i \in 1..Len(probe.value) : probe.value[i] = " ")
             => (probe.invalid /\ probe.msg = RequiredMsg[n])
        /\ (known /\ v # <<>>)
             => probe.msg = (IF probe.invalid THEN FormatMsg[n] ELSE "")
        /\ (n = "username" /\ v # <<>>) => (probe.invalid <=> ~IsUsername(v))
        /\ (n = "username" /\ v = <<"a", "b">>) => probe.invalid
        /\ (n = "username" /\ v = <<"a", "b", "c", "_", "1", "2", "3">>)
             => ~probe.invalid
        /\ (n = "email" /\ v = <<"a", "@", "b", ".", "c">>) => probe.invalid
        /\ (n = "email" /\ v = <<"a", "@", "b", ".", "c", "o">>)
             => ~probe.invalid

\* a username of 20 letters between spaces was validated and found valid
C13_Witness ==
  /\ probe.validated /\ ~probe.invalid /\ probe.name = "username"
  /\ Len(probe.value) > 20 /\ Len(trim(probe.value)) = 20

\* C14: a non-empty password is valid exactly when it has at least 6
\* characters, among them a letter and a digit, whatever its other
\* printable characters are.
C14_PasswordRule ==
  (probe.validated /\ probe.name = "password" /\ trim(probe.value) # <<>>)
    => LET v == trim(probe.value) IN
       ~probe.invalid <=>
         /\ Len(v) >= 6
         /\ \E i \in 1..Len(v) : v[i] \in Letters
         /\ \E i \in 1..Len(v) : v[i] \in Digits

\* C15: for each input at most one error element is ever created, also for
\* an input with no enclosing .field group.
C15_OneErrorElementPerField ==
  \A f \in Fields : fields[f].created <= 1

\* C20: the error elements of two distinct inputs have distinct ids, also
\* when the two forms each have an input of the same name.
C20_DistinctErrorIds ==
  \A f \in Fields, g \in Fields :
    (f # g /\ fields[f].err.exists /\ fields[g].err.exists)
      => fields[f].err.id # fields[g].err.id

\* the input's error message is shown: aria-invalid is "true" and the error
\* element of its group is un-hidden with the message
ShowsError(f, msg) ==
  /\ fields[f].ariaInvalid = "true"
  /\ fields[f].err.exists /\ ~fields[f].err.hidden /\ fields[f].err.text = msg

\* the input shows no error: aria-invalid is "false" and no error element of
\* its group is un-hidden
ShowsNoError(f) ==
  /\ fields[f].ariaInvalid = "false"
  /\ fields[f].err.exists => fields[f].err.hidden

\* the submit event of the form was dispatched in this step
Submitted(form) ==
  lastEvent'.kind \in {"submit", "submitBlocked"} /\ lastEvent'.arg = form

\* C12: the submit of a form with an input that fails its rule is blocked:
\* nothing the dialog controller owns changes, no toast is shown, no error is
\* raised; and after it every input of the form shows its error message if
\* it fails its rule and shows none if it passes.
C12_InvalidSubmitBlocked ==
  [][\A form \in Keys :
       (/\ Submitted(form)
        /\ \E f \in Fields :
             f.form = form /\ Verdict(f.name, fields[f].value).invalid)
       => /\ UNCHANGED Dom
          /\ threw' = FALSE
          /\ toast'.issued = <<>>
          /\ UNCHANGED <<toast.title, toast.text, toast.timers>>
          /\ \A f \in Fields :
               f.form = form =>
                 IF Verdict(f.name, fields[f].value).invalid
                 THEN ShowsError(f, Verdict(f.name, fields[f].value).msg)'
                 ELSE ShowsNoError(f)']_vars

\* the toasts the onEnd listeners pending on a container will show
RECURSIVE Awaited(_)
Awaited(listeners) ==
  IF listeners = <<>> THEN <<>>
  ELSE IF Head(listeners) = "submit-register"
  THEN <<"register: success">> \o Awaited(Tail(listeners))
  ELSE IF Head(listeners) = "submit-login"
  THEN <<"login: success">> \o Awaited(Tail(listeners))
  ELSE Awaited(Tail(listeners))

C18_LiveRegionAlwaysUpdated ==
  [][/\ toast'.issued # <<>>
          => /\ threw' = FALSE
             /\ Len(toast'.timers) >= Len(toast'.issued)
             /\ SubSeq(toast'.timers,
                       Len(toast'.timers) - Len(toast'.issued) + 1,
                       Len(toast'.timers)) = toast'.issued
             /\ toast.swal => toast'.title = toast'.issued[Len(toast'.issued)]
     /\ lastEvent' = Ev("timeout", "toast")
          => toast'.text = Head(toast.timers)]_vars

=============================================================================
